---- MODULE Spec2Model ----
(***************************************************************************)
(* Model of the fuzzy deduplication and merge engine of src/src/merge.py:  *)
(* fuzzy_match_name_location, find_duplicates, the three merge strategies,  *)
(* deduplicate_and_merge and ingest_and_merge, and of the investors table  *)
(* of src/src/database.py: init_database, insert_dataframe,                *)
(* remove_unused_columns and load_all_investors.                           *)
(*                                                                         *)
(* Text values are sequences of one-character strings, so that lower(),    *)
(* strip() and fuzz.ratio() are computed, not assumed.  A DataFrame is a   *)
(* sequence of rows, a row is a function from column name to value, and    *)
(* the row label (index) of a row is its position in the sequence.         *)
(***************************************************************************)
EXTENDS Integers, Sequences, FiniteSets, TLC

VARIABLES new_df, existing_df, strategy, threshold, pc, run,
          duplicates, unique_new, updated_existing,
          existing_indices_to_update, discarded, returned_row,
          investors, store_result, store_call,
          sheets, results, ingest_call

vars == <<new_df, existing_df, strategy, threshold, pc, run,
          duplicates, unique_new, updated_existing,
          existing_indices_to_update, discarded, returned_row,
          investors, store_result, store_call,
          sheets, results, ingest_call>>

\* The investors table, the value the last call on it returned, and that
\* call with the table as it was before it.
storeVars == <<investors, store_result, store_call>>

\* The sheets ingest_and_merge has still to process, its results, and the
\* call with the table as it was before it.
ingestVars == <<sheets, results, ingest_call>>

(***************************************************************************)
(* Bounds of the model.                                                    *)
(***************************************************************************)
MaxNew == 2
MaxExisting == 2
MaxValue == 2
MaxStore == 3
MaxSheets == 2
MaxSheetRows == 1

(***************************************************************************)
(* Values.  A missing text value is NoneText; a missing number is None     *)
(* (Python None) or NaN (float nan); pd.isna is true of all three.         *)
(***************************************************************************)
NoneText == <<"<None>">>
None == -1
NaN == -2

TextCols == {"name", "location", "employees"}

IsNa(col, v) == IF col \in TextCols THEN v = NoneText ELSE v \in {None, NaN}

\* The value pandas stores for a column that an assigned row does not have.
MissingValue(col) == IF col \in TextCols THEN NoneText ELSE NaN

(***************************************************************************)
(* str(x).lower().strip()                                                  *)
(***************************************************************************)
Str(v) == IF v = NoneText THEN <<"N", "o", "n", "e">> ELSE v

LowerChar(c) ==
  CASE c = "A" -> "a"
    [] c = "B" -> "b"
    [] c = "N" -> "n"
    [] c = "Z" -> "z"
    [] OTHER -> c

Lower(s) == [i \in 1..Len(s) |-> LowerChar(s[i])]

RECURSIVE LStrip(_)
LStrip(s) == IF s # <<>> /\ Head(s) = " " THEN LStrip(Tail(s)) ELSE s

RECURSIVE RStrip(_)
RStrip(s) ==
  IF s # <<>> /\ s[Len(s)] = " " THEN RStrip(SubSeq(s, 1, Len(s) - 1)) ELSE s

Strip(s) == RStrip(LStrip(s))

Normalize(v) == Strip(Lower(Str(v)))

(***************************************************************************)
(* rapidfuzz fuzz.ratio: the normalized Indel similarity                   *)
(*   100 * (1 - (|a| + |b| - 2 * lcs(a, b)) / (|a| + |b|)),                *)
(* 100 for two empty strings.  The score is the rational 100 * n / d, kept *)
(* as the pair [n, d] so that comparisons are exact.                       *)
(***************************************************************************)
RECURSIVE LcsLen(_, _)
LcsLen(a, b) ==
  IF a = <<>> \/ b = <<>> THEN 0
  ELSE IF Head(a) = Head(b) THEN 1 + LcsLen(Tail(a), Tail(b))
  ELSE LET x == LcsLen(Tail(a), b)
           y == LcsLen(a, Tail(b))
       IN IF x >= y THEN x ELSE y

Ratio(a, b) ==
  IF Len(a) + Len(b) = 0 THEN [n |-> 1, d |-> 1]
  ELSE [n |-> 2 * LcsLen(a, b), d |-> Len(a) + Len(b)]

\* score >= t, for an integer t
ScoreGE(s, t) == 100 * s.n >= t * s.d

\* score1 > score2
ScoreGT(s1, s2) == s1.n * s2.d > s2.n * s1.d

ScoreEq(s1, s2) == s1.n * s2.d = s2.n * s1.d

ZeroScore == [n |-> 0, d |-> 1]

LocationThreshold == 70

(***************************************************************************)
(* fuzzy_match_name_location                                               *)
(***************************************************************************)
\* fuzzy_match_name_location with the name threshold made exclusive.
fuzzy_match_exclusive(name1, location1, name2, location2, t) ==
  IF name1 = NoneText \/ name2 = NoneText THEN FALSE
  ELSE
    LET n1 == Normalize(name1)
        n2 == Normalize(name2)
        loc1 == IF location1 = NoneText THEN <<>> ELSE Normalize(location1)
        loc2 == IF location2 = NoneText THEN <<>> ELSE Normalize(location2)
    IN IF n1 = n2 /\ (loc1 = loc2 \/ (loc1 = <<>> /\ loc2 = <<>>)) THEN TRUE
       ELSE IF ScoreGT(Ratio(n1, n2), [n |-> t, d |-> 100])
         THEN IF location1 = NoneText \/ location2 = NoneText THEN TRUE
              ELSE ScoreGE(Ratio(Normalize(location1), Normalize(location2)),
                           LocationThreshold)
         ELSE FALSE

fuzzy_match_name_location(name1, location1, name2, location2, t) ==
  IF name1 = NoneText \/ name2 = NoneText THEN FALSE
  ELSE
    LET n1 == Normalize(name1)
        n2 == Normalize(name2)
        loc1 == IF location1 = NoneText THEN <<>> ELSE Normalize(location1)
        loc2 == IF location2 = NoneText THEN <<>> ELSE Normalize(location2)
    IN IF n1 = n2 /\ (loc1 = loc2 \/ (loc1 = <<>> /\ loc2 = <<>>)) THEN TRUE
       ELSE IF ScoreGE(Ratio(n1, n2), t)
         THEN IF location1 = NoneText \/ location2 = NoneText THEN TRUE
              ELSE ScoreGE(Ratio(Normalize(location1), Normalize(location2)),
                           LocationThreshold)
         ELSE FALSE

(***************************************************************************)
(* find_duplicates                                                         *)
(***************************************************************************)
\* The normalized name and location find_duplicates computes for a row.
RowName(row) == Normalize(row.name)

RowLocation(row) ==
  IF row.location = NoneText THEN <<>> ELSE Normalize(row.location)

NoMatch == 0

\* The inner loop without the comparison of scores: the last accepted row
\* is kept.
RECURSIVE ScanExisting_LastAccepted(_, _, _, _, _, _, _)
ScanExisting_LastAccepted(new_name, new_location, existing, t, i, best_match, best_similarity) ==
  IF i > Len(existing) THEN [match |-> best_match, similarity |-> best_similarity]
  ELSE
    LET existing_name == RowName(existing[i])
        existing_location == RowLocation(existing[i])
    IN IF fuzzy_match_name_location(new_name, new_location,
                                    existing_name, existing_location, t)
       THEN ScanExisting_LastAccepted(new_name, new_location, existing, t, i + 1,
                                      i, Ratio(new_name, existing_name))
       ELSE ScanExisting_LastAccepted(new_name, new_location, existing, t, i + 1,
                                      best_match, best_similarity)

\* The inner loop over existing_df.iterrows(), from row i on.
RECURSIVE ScanExisting(_, _, _, _, _, _, _)
ScanExisting(new_name, new_location, existing, t, i, best_match, best_similarity) ==
  IF i > Len(existing) THEN [match |-> best_match, similarity |-> best_similarity]
  ELSE
    LET existing_name == RowName(existing[i])
        existing_location == RowLocation(existing[i])
        name_sim == Ratio(new_name, existing_name)
        better ==
          /\ fuzzy_match_name_location(new_name, new_location,
                                       existing_name, existing_location, t)
          /\ ScoreGT(name_sim, best_similarity)
    IN IF better
       THEN ScanExisting(new_name, new_location, existing, t, i + 1, i, name_sim)
       ELSE ScanExisting(new_name, new_location, existing, t, i + 1,
                         best_match, best_similarity)

\* The outer loop with the append moved into the inner loop: one match for
\* every accepted existing row.
RECURSIVE AcceptedFrom(_, _, _, _, _, _)
AcceptedFrom(new_name, new_location, existing, t, i, j) ==
  IF j > Len(existing) THEN <<>>
  ELSE
    LET existing_name == RowName(existing[j])
        rest == AcceptedFrom(new_name, new_location, existing, t, i, j + 1)
    IN IF fuzzy_match_name_location(new_name, new_location, existing_name,
                                    RowLocation(existing[j]), t)
       THEN <<[new_index |-> i, existing_index |-> j,
               similarity |-> Ratio(new_name, existing_name)]>> \o rest
       ELSE rest

RECURSIVE ScanNew_EveryAccepted(_, _, _, _)
ScanNew_EveryAccepted(new, existing, t, i) ==
  IF i > Len(new) THEN <<>>
  ELSE
    LET new_name == RowName(new[i])
        rest == ScanNew_EveryAccepted(new, existing, t, i + 1)
    IN IF new_name = <<>> THEN rest
       ELSE AcceptedFrom(new_name, RowLocation(new[i]), existing, t, i, 1) \o rest

\* The outer loop over new_df.iterrows(), from row i on.
RECURSIVE ScanNew(_, _, _, _)
ScanNew(new, existing, t, i) ==
  IF i > Len(new) THEN <<>>
  ELSE
    LET new_name == RowName(new[i])
        new_location == RowLocation(new[i])
        best == ScanExisting(new_name, new_location, existing, t, 1,
                             NoMatch, ZeroScore)
        rest == ScanNew(new, existing, t, i + 1)
    IN IF new_name = <<>> THEN rest
       ELSE IF best.match # NoMatch
         THEN <<[new_index |-> i, existing_index |-> best.match,
                 similarity |-> best.similarity]>> \o rest
         ELSE rest

find_duplicates(new, existing, t) ==
  IF new = <<>> \/ existing = <<>> THEN <<>> ELSE ScanNew(new, existing, t, 1)

(***************************************************************************)
(* Merge strategies                                                        *)
(***************************************************************************)
\* a > b for timestamps and numbers: false when either side is NaN / NaT.
Greater(a, b) == a \notin {None, NaN} /\ b \notin {None, NaN} /\ a > b

\* keep_latest with ties going to the new row.
keep_latest_ties_new(new_row, existing_row) ==
  IF Greater(new_row.ingested_at, existing_row.ingested_at)
     \/ new_row.ingested_at = existing_row.ingested_at
  THEN new_row ELSE existing_row

merge_strategy_keep_latest(new_row, existing_row) ==
  IF Greater(new_row.ingested_at, existing_row.ingested_at)
  THEN new_row ELSE existing_row

\* `value or 0`: None becomes 0, NaN is truthy and stays NaN.
OrZero(v) == IF v = None THEN 0 ELSE v

merge_strategy_keep_richest(new_row, existing_row) ==
  IF Greater(OrZero(new_row.portfolio_value), OrZero(existing_row.portfolio_value))
  THEN new_row ELSE existing_row

HighWaterCols == {"portfolio_value", "deal_size_max", "no_of_rounds"}

\* existing_row.copy(): a row with the values of row that shares no storage
\* with it, so that a write to the copy leaves row as it was.
RowCopy(row) == [values |-> row, shares |-> FALSE]

\* existing_row.get(col): None when the existing row has no such column.
GetOrNone(row, col) ==
  IF col \in DOMAIN row THEN row[col]
  ELSE IF col \in TextCols THEN NoneText ELSE None

\* The loop body with a non-null new value written over any other field.
MergedValue_PreferNew(new_row, existing_row, col) ==
  LET new_val == new_row[col]
      existing_val == GetOrNone(existing_row, col)
  IN IF IsNa(col, existing_val) /\ ~IsNa(col, new_val) THEN new_val
     ELSE IF col = "ingested_at"
       THEN IF Greater(new_val, existing_val) THEN new_val ELSE existing_val
     ELSE IF col \in HighWaterCols
       THEN IF ~IsNa(col, new_val)
               /\ (IsNa(col, existing_val) \/ new_val > existing_val)
            THEN new_val ELSE existing_val
     ELSE IF ~IsNa(col, new_val) THEN new_val ELSE existing_val

\* The loop body without the branch of the numeric fields.
MergedValue_NoHighWater(new_row, existing_row, col) ==
  LET new_val == new_row[col]
      existing_val == GetOrNone(existing_row, col)
  IN IF IsNa(col, existing_val) /\ ~IsNa(col, new_val) THEN new_val
     ELSE IF col = "ingested_at"
       THEN IF Greater(new_val, existing_val) THEN new_val ELSE existing_val
     ELSE existing_val

\* The loop body without the branch that fills a missing existing value.
MergedValue_NotFilled(new_row, existing_row, col) ==
  LET new_val == new_row[col]
      existing_val == GetOrNone(existing_row, col)
  IN IF col = "ingested_at"
       THEN IF Greater(new_val, existing_val) THEN new_val ELSE existing_val
     ELSE IF col \in HighWaterCols
       THEN IF ~IsNa(col, new_val)
               /\ (IsNa(col, existing_val) \/ new_val > existing_val)
            THEN new_val ELSE existing_val
     ELSE existing_val

\* The value merged[col] ends with, for a column of the new row.
MergedValue(new_row, existing_row, col) ==
  LET new_val == new_row[col]
      existing_val == GetOrNone(existing_row, col)
  IN IF IsNa(col, existing_val) /\ ~IsNa(col, new_val) THEN new_val
     ELSE IF col = "ingested_at"
       THEN IF Greater(new_val, existing_val) THEN new_val ELSE existing_val
     ELSE IF col \in HighWaterCols
       THEN IF ~IsNa(col, new_val)
               /\ (IsNa(col, existing_val) \/ new_val > existing_val)
            THEN new_val ELSE existing_val
     ELSE existing_val

merge_strategy_merge_fields(new_row, existing_row) ==
  LET merged == RowCopy(existing_row).values
      added == {c \in DOMAIN new_row :
                  c \notin DOMAIN merged /\ ~IsNa(c, new_row[c])}
  IN [c \in DOMAIN merged \cup added |->
        IF c \in DOMAIN new_row THEN MergedValue(new_row, existing_row, c)
        ELSE merged[c]]

\* strategy_funcs.get(strategy, merge_strategy_keep_latest)
merge_func(name, new_row, existing_row) ==
  CASE name = "keep_latest" -> merge_strategy_keep_latest(new_row, existing_row)
    [] name = "keep_richest" -> merge_strategy_keep_richest(new_row, existing_row)
    [] name = "merge_fields" -> merge_strategy_merge_fields(new_row, existing_row)
    [] OTHER -> merge_strategy_keep_latest(new_row, existing_row)

\* The existing row as the caller sees it after merge_func returned: the
\* writes of merge_fields go to merged, which is the existing row itself
\* only if it shares its storage; the other strategies write nothing.
existing_row_after(name, new_row, existing_row) ==
  IF name = "merge_fields" /\ RowCopy(existing_row).shares
  THEN [c \in DOMAIN existing_row |->
          merge_strategy_merge_fields(new_row, existing_row)[c]]
  ELSE existing_row

\* Series.equals: same labels, equal values, missing values equal each other.
RowEquals(a, b) ==
  /\ DOMAIN a = DOMAIN b
  /\ \A c \in DOMAIN a : (IsNa(c, a[c]) /\ IsNa(c, b[c])) \/ a[c] = b[c]

\* updated_existing.loc[idx] = merged_row: the row aligned to the columns of
\* the frame; a column the row lacks is stored as missing.
AlignTo(row, cols) ==
  [c \in cols |-> IF c \in DOMAIN row THEN row[c] ELSE MissingValue(c)]

(***************************************************************************)
(* deduplicate_and_merge                                                   *)
(***************************************************************************)
EmptyUpdates == [i \in {} |-> 0]

\* The loop without the test merged_row.equals(existing_row): every match
\* updates its existing row.
RECURSIVE ProcessDuplicates_AlwaysUpdate(_, _, _, _, _, _)
ProcessDuplicates_AlwaysUpdate(new, existing, name, dups, i, acc) ==
  IF i > Len(dups) THEN acc
  ELSE
    LET new_idx == dups[i].new_index
        existing_idx == dups[i].existing_index
        merged_row == merge_func(name, new[new_idx], existing[existing_idx])
    IN ProcessDuplicates_AlwaysUpdate(new, existing, name, dups, i + 1,
         [acc EXCEPT !.remove = @ \cup {new_idx},
                     !.update = [k \in DOMAIN @ \cup {existing_idx} |->
                                   IF k = existing_idx THEN merged_row
                                   ELSE @[k]]])

\* The loop over duplicates.iterrows(), from match i on.  remove is
\* new_indices_to_remove, update is existing_indices_to_update, and dropped
\* records the new rows that took the branch "merged row is the existing one".
RECURSIVE ProcessDuplicates(_, _, _, _, _, _)
ProcessDuplicates(new, existing, name, dups, i, acc) ==
  IF i > Len(dups) THEN acc
  ELSE
    LET new_idx == dups[i].new_index
        existing_idx == dups[i].existing_index
        merged_row == merge_func(name, new[new_idx], existing[existing_idx])
    IN IF RowEquals(merged_row, existing[existing_idx])
       THEN ProcessDuplicates(new, existing, name, dups, i + 1,
              [acc EXCEPT !.remove = @ \cup {new_idx},
                          !.dropped = @ \cup {new_idx}])
       ELSE ProcessDuplicates(new, existing, name, dups, i + 1,
              [acc EXCEPT !.remove = @ \cup {new_idx},
                          !.update = [k \in DOMAIN @ \cup {existing_idx} |->
                                        IF k = existing_idx THEN merged_row
                                        ELSE @[k]]])

\* new_df.drop(index=remove)
RECURSIVE DropRows(_, _, _)
DropRows(df, remove, i) ==
  IF i > Len(df) THEN <<>>
  ELSE IF i \in remove THEN DropRows(df, remove, i + 1)
  ELSE <<df[i]>> \o DropRows(df, remove, i + 1)

\* The frame itself instead of a copy: a write to it is a write to df.
FrameAlias(df) == [rows |-> df, shares |-> TRUE]

\* existing_df.copy(): a frame with the rows of df that shares no storage
\* with it.
FrameCopy(df) == [rows |-> df, shares |-> FALSE]

\* The update loop with the merged rows appended instead of written over
\* the rows they replace.
ApplyUpdates_Appended(existing, update) ==
  existing \o [k \in 1..Cardinality(DOMAIN update) |->
                AlignTo(update[CHOOSE i \in DOMAIN update :
                                 Cardinality({m \in DOMAIN update : m <= i}) = k],
                        DOMAIN existing[1])]

ApplyUpdates(existing, update) ==
  [i \in 1..Len(existing) |->
     IF i \in DOMAIN update THEN AlignTo(update[i], DOMAIN existing[i])
     ELSE existing[i]]

\* deduplicate_and_merge with the two results of the early returns swapped.
deduplicate_and_merge_swapped(new, existing, name, t) ==
  IF existing = <<>> \/ new = <<>>
  THEN [unique_new |-> existing, updated_existing |-> new,
        duplicates |-> <<>>, update |-> EmptyUpdates, dropped |-> {},
        existing_after |-> existing]
  ELSE
    LET dups == find_duplicates(new, existing, t)
        acc == ProcessDuplicates(new, existing, name, dups, 1,
                 [remove |-> {}, update |-> EmptyUpdates, dropped |-> {}])
        target == FrameCopy(existing)
        written == ApplyUpdates(target.rows, acc.update)
    IN [unique_new |-> DropRows(new, acc.remove, 1),
        updated_existing |-> written,
        duplicates |-> dups, update |-> acc.update, dropped |-> acc.dropped,
        existing_after |-> IF target.shares THEN written ELSE existing]

deduplicate_and_merge(new, existing, name, t) ==
  IF existing = <<>> \/ new = <<>>
  THEN [unique_new |-> new, updated_existing |-> existing,
        duplicates |-> <<>>, update |-> EmptyUpdates, dropped |-> {},
        existing_after |-> existing]
  ELSE
    LET dups == find_duplicates(new, existing, t)
        acc == ProcessDuplicates(new, existing, name, dups, 1,
                 [remove |-> {}, update |-> EmptyUpdates, dropped |-> {}])
        target == FrameCopy(existing)
        written == ApplyUpdates(target.rows, acc.update)
    IN [unique_new |-> DropRows(new, acc.remove, 1),
        updated_existing |-> written,
        duplicates |-> dups, update |-> acc.update, dropped |-> acc.dropped,
        \* the frame passed in, after the writes to updated_existing
        existing_after |-> IF target.shares THEN written ELSE existing]

(***************************************************************************)
(* Inputs.                                                                 *)
(***************************************************************************)
ab == <<"a", "b">>
abc == <<"a", "b", "c">>
xy == <<"x", "y">>
AbSpace == <<"A", "b", " ">>
Blank == <<" ">>
zg == <<"z", "g">>
zgb == <<"Z", "g", "b">>

NewRow(name, location, portfolio_value, ingested_at) ==
  [name |-> name, location |-> location, portfolio_value |-> portfolio_value,
   ingested_at |-> ingested_at, employees |-> NoneText]

\* A row of the investors table: the columns of a cleaned row and the id.
WithId(row, id) ==
  [c \in DOMAIN row \cup {"id"} |-> IF c = "id" THEN id ELSE row[c]]

WithIds(rows, first) == [i \in 1..Len(rows) |-> WithId(rows[i], first + i - 1)]

SeqsUpTo(S, n) == UNION {[1..k -> S] : k \in 0..n}

\* The rows of a snapshot of the store obey UNIQUE(name, location): no two
\* of them have the same name and the same non-NULL location.
UniqueKeys(rows) ==
  \A i, j \in 1..Len(rows) :
    (i < j /\ rows[i].location # NoneText /\ rows[j].location # NoneText) =>
      (rows[i].name # rows[j].name \/ rows[i].location # rows[j].location)

StoreSnapshots(S, n) ==
  {WithIds(rows, 1) : rows \in {r \in SeqsUpTo(S, n) : UniqueKeys(r)}}

\* Names and locations that exercise the matching rules: an exact pair, the
\* same name under another spelling with a similar location, a fuzzy
\* neighbour (ratio 80) with and without a location, and an unrelated name
\* (ratio 0).
ExistingKeys ==
  {<<ab, zg>>, <<AbSpace, zgb>>, <<abc, zg>>, <<abc, NoneText>>, <<xy, zg>>}

\* A new batch may also hold a row whose name is blank; the rows of the
\* store have passed clean_dataframe, which drops such rows.
NewKeys == ExistingKeys \cup {<<Blank, zg>>}

MatchThresholds == {0, 80, 81}

DefaultStrategy == "keep_latest"

\* Rows that exercise the merge strategies: one investor with a missing, a
\* smaller and a larger portfolio value, earlier and later timestamps, and a
\* fuzzy neighbour of it.
MergeRows ==
  {NewRow(ab, zg, NaN, 1), NewRow(ab, zg, 1, 2), NewRow(ab, zg, 2, 1),
   NewRow(abc, zg, 2, 2)}

Strategies == {"keep_latest", "keep_richest", "merge_fields"}

MergeThresholds == {-1, 80, 101}

(***************************************************************************)
(* The investors table: init_database, insert_dataframe with               *)
(* replace=False, remove_unused_columns.  A table is its rows, its columns *)
(* and whether it carries the constraint UNIQUE(name, location).           *)
(***************************************************************************)
\* The columns of SCHEMA_SQL that the rows of the model have.
SchemaColumns ==
  {"id", "name", "location", "portfolio_value", "employees", "ingested_at"}

\* The table init_database creates in a new database.
init_database == [rows |-> <<>>, columns |-> SchemaColumns, unique |-> TRUE]

\* A table created by SCHEMA_SQL that holds the given rows.
TableOf(rows) == [rows |-> rows, columns |-> SchemaColumns, unique |-> TRUE]

\* The value a cell is stored as: pd.isna values become NULL.
StoredValue(col, v) == IF IsNa(col, v) THEN MissingValue(col) ELSE v

\* INSERT OR IGNORE refuses a row whose name is NULL (name TEXT NOT NULL)
\* or, in a table with UNIQUE(name, location), whose (name, location) is
\* already stored; a NULL location is distinct from every location.
Refused(conn, row) ==
  \/ row.name = NoneText
  \/ /\ conn.unique
     /\ row.location # NoneText
     /\ \E k \in 1..Len(conn.rows) :
          /\ conn.rows[k].name = row.name
          /\ conn.rows[k].location = row.location

\* ALTER TABLE investors ADD COLUMN for every column of cols the table
\* lacks: the stored rows get NULL in it.
ensure_columns_exist(conn, cols) ==
  [conn EXCEPT
     !.columns = @ \cup cols,
     !.rows = [i \in 1..Len(@) |->
                 [c \in conn.columns \cup cols |->
                    IF c \in conn.columns THEN @[i][c] ELSE MissingValue(c)]]]

\* The row INSERT stores for a row of the frame: the id is assigned by
\* AUTOINCREMENT, a column the frame lacks is NULL.  Timestamps are whole
\* seconds, which strftime keeps.
InsertedRow(conn, row) ==
  [c \in conn.columns |->
     IF c = "id" THEN Len(conn.rows) + 1
     ELSE IF c \in DOMAIN row THEN StoredValue(c, row[c])
     ELSE MissingValue(c)]

\* The loop over insert_df.iterrows(), from row i on, with every row that
\* INSERT OR IGNORE did not raise on counted as inserted.
RECURSIVE InsertRows_CountAll(_, _, _, _)
InsertRows_CountAll(conn, df, i, inserted) ==
  IF i > Len(df) THEN [conn |-> conn, inserted |-> inserted]
  ELSE IF Refused(conn, df[i])
    THEN InsertRows_CountAll(conn, df, i + 1, inserted + 1)
  ELSE InsertRows_CountAll(
         [conn EXCEPT !.rows = Append(@, InsertedRow(conn, df[i]))],
         df, i + 1, inserted + 1)

\* The loop over insert_df.iterrows(), from row i on; a row is counted when
\* cursor.rowcount > 0.
RECURSIVE InsertRows(_, _, _, _)
InsertRows(conn, df, i, inserted) ==
  IF i > Len(df) THEN [conn |-> conn, inserted |-> inserted]
  ELSE IF Refused(conn, df[i]) THEN InsertRows(conn, df, i + 1, inserted)
  ELSE InsertRows(
         [conn EXCEPT !.rows = Append(@, InsertedRow(conn, df[i]))],
         df, i + 1, inserted + 1)

insert_dataframe(conn, df) ==
  IF df = <<>> THEN [conn |-> conn, inserted |-> 0]
  ELSE InsertRows(ensure_columns_exist(conn, DOMAIN df[1]), df, 1, 0)

EssentialColumns ==
  {"id", "name", "location", "source_file", "source_sheet", "ingested_at"}

\* The table investors_new: the columns to keep, no table constraint.
RecreatedTable(conn, columns_to_keep) ==
  [rows |-> [i \in 1..Len(conn.rows) |->
               [c \in columns_to_keep |-> conn.rows[i][c]]],
   columns |-> columns_to_keep,
   unique |-> FALSE]

\* remove_unused_columns(conn, columns_to_remove, preserve_essential=True)
remove_unused_columns(conn, columns_to_remove) ==
  LET removable == columns_to_remove \ EssentialColumns
      columns_to_keep == conn.columns \ removable
  IN IF removable = {} \/ columns_to_keep = conn.columns
     THEN [conn |-> conn, removed |-> 0]
     ELSE [conn |-> RecreatedTable(conn, columns_to_keep),
           removed |-> Cardinality(removable)]

\* Rows handed to the store: one investor in two versions, the same name
\* without a location, and a row without a name.
StoreRows ==
  {NewRow(ab, zg, NaN, 1), NewRow(ab, zg, 1, 2), NewRow(ab, NoneText, NaN, 1),
   NewRow(NoneText, zg, NaN, 1)}

\* Requests of column removal: an unused column, essential columns only, a
\* column the table does not have, and a mix.
RemoveRequests ==
  {{"employees"}, {"name", "location"}, {"website"}, {"employees", "name"}}

NoCall ==
  [op |-> "none", before |-> init_database, df |-> <<>>, columns |-> {},
   columns_removed |-> FALSE]

(***************************************************************************)
(* ingest_and_merge: load_file, filter_sheets, init_database,              *)
(* load_all_investors, then one pass of the loop per sheet.  A sheet is    *)
(* its name, the frame clean_dataframe gives for it, and the call of the   *)
(* loop body that raises on it, if one does.                               *)
(***************************************************************************)
overview == <<"o", "v", "e", "r", "v", "i", "e", "w">>
search == <<"s", "e", "a", "r", "c", "h">>
scrape == <<"s", "c", "r", "a", "p", "e">>
instructions ==
  <<"i", "n", "s", "t", "r", "u", "c", "t", "i", "o", "n", "s">>
readme == <<"r", "e", "a", "d", "m", "e">>
metadata == <<"m", "e", "t", "a", "d", "a", "t", "a">>

exclude_keywords ==
  {overview, search, scrape, instructions, readme, metadata}

\* keyword in sheet_lower
Contains(s, k) ==
  \E i \in 0..(Len(s) - Len(k)) : SubSeq(s, i + 1, i + Len(k)) = k

RECURSIVE filter_sheets(_)
filter_sheets(file_sheets) ==
  IF file_sheets = <<>> THEN <<>>
  ELSE IF \E k \in exclude_keywords :
            Contains(Lower(Head(file_sheets).sheet_name), k)
       THEN filter_sheets(Tail(file_sheets))
       ELSE <<Head(file_sheets)>> \o filter_sheets(Tail(file_sheets))

\* The code point of a character, for ORDER BY name.
CharCode(c) ==
  CASE c = " " -> 32 [] c = "A" -> 65 [] c = "B" -> 66 [] c = "N" -> 78
    [] c = "Z" -> 90 [] c = "a" -> 97 [] c = "b" -> 98 [] c = "c" -> 99
    [] c = "d" -> 100 [] c = "e" -> 101 [] c = "g" -> 103 [] c = "n" -> 110
    [] c = "o" -> 111 [] c = "t" -> 116 [] c = "x" -> 120 [] c = "y" -> 121
    [] c = "z" -> 122 [] OTHER -> 0

RECURSIVE TextLess(_, _)
TextLess(a, b) ==
  IF b = <<>> THEN FALSE
  ELSE IF a = <<>> THEN TRUE
  ELSE IF Head(a) = Head(b) THEN TextLess(Tail(a), Tail(b))
  ELSE CharCode(Head(a)) < CharCode(Head(b))

\* The rows with row put after the rows whose name is not greater.
RECURSIVE InsertByName(_, _)
InsertByName(rows, row) ==
  IF rows = <<>> THEN <<row>>
  ELSE IF TextLess(row.name, Head(rows).name) THEN <<row>> \o rows
  ELSE <<Head(rows)>> \o InsertByName(Tail(rows), row)

RECURSIVE OrderByName(_, _)
OrderByName(rows, i) ==
  IF i = 0 THEN <<>> ELSE InsertByName(OrderByName(rows, i - 1), rows[i])

\* SELECT * FROM investors ORDER BY name; rows of one name stay in the
\* order of their ids.
load_all_investors(conn) == OrderByName(conn.rows, Len(conn.rows))

EmptyResults ==
  [sheets_processed |-> 0, rows_added |-> 0, rows_updated |-> 0,
   rows_skipped |-> 0, errors |-> <<>>]

NoMerge ==
  [unique_new |-> <<>>, updated_existing |-> <<>>, duplicates |-> <<>>,
   update |-> EmptyUpdates, dropped |-> {}, existing_after |-> <<>>]

\* As SheetFailed, but the sheet is counted as processed.
SheetFailed_Counted(conn, sheet, res) ==
  [conn |-> conn, outcome |-> "failed", merge |-> NoMerge,
   results |-> [res EXCEPT !.sheets_processed = @ + 1,
                           !.errors =
                  Append(@, [sheet |-> sheet.sheet_name, file |-> FALSE])]]

\* The except clause of the loop: the error is recorded and the loop goes
\* on with the next sheet.
SheetFailed(conn, sheet, res) ==
  [conn |-> conn, outcome |-> "failed", merge |-> NoMerge,
   results |-> [res EXCEPT !.errors =
                  Append(@, [sheet |-> sheet.sheet_name, file |-> FALSE])]]

\* One pass of the loop body on a sheet.
process_sheet(conn, existing, sheet, name, t, res) ==
  IF sheet.raises = "clean_dataframe" THEN SheetFailed(conn, sheet, res)
  ELSE IF sheet.cleaned_df = <<>>
  THEN [conn |-> conn, outcome |-> "empty", merge |-> NoMerge,
        results |-> res]
  ELSE IF sheet.raises = "deduplicate_and_merge"
  THEN SheetFailed(conn, sheet, res)
  ELSE
    LET r == deduplicate_and_merge(sheet.cleaned_df, existing, name, t)
        ins == IF r.unique_new # <<>>
               THEN insert_dataframe(conn, r.unique_new)
               ELSE [conn |-> conn, inserted |-> 0]
    IN [conn |-> ins.conn, outcome |-> "processed", merge |-> r,
        results |-> [res EXCEPT !.rows_added = @ + ins.inserted,
                                !.sheets_processed = @ + 1]]

\* Cleaned rows: a record, the same record ingested later with a value, and
\* a fuzzy neighbour of it (ratio 80).
IngestRows ==
  {NewRow(ab, zg, NaN, 1), NewRow(ab, zg, 1, 2), NewRow(abc, zg, NaN, 1)}

SheetNames == {ab, zg, readme}

SheetFrames == SeqsUpTo(IngestRows, MaxSheetRows)

\* What a sheet holds: clean_dataframe raises on it, or it gives a frame
\* and deduplicate_and_merge or insert_dataframe may raise on that.
SheetContents ==
  {[cleaned_df |-> <<>>, raises |-> "clean_dataframe"]}
    \cup {[cleaned_df |-> f, raises |-> "none"] : f \in SheetFrames}
    \cup {[cleaned_df |-> f, raises |-> "deduplicate_and_merge"] :
            f \in SheetFrames \ {<<>>}}

AllSheets ==
  {[sheet_name |-> n, cleaned_df |-> c.cleaned_df, raises |-> c.raises] :
     n \in SheetNames, c \in SheetContents}

\* The sheets of a file: load_file gives a dict, so no name occurs twice.
Files ==
  {f \in SeqsUpTo(AllSheets, MaxSheets) :
     \A i, j \in 1..Len(f) : i < j => f[i].sheet_name # f[j].sheet_name}

RECURSIVE RowsIn(_)
RowsIn(file_sheets) ==
  IF file_sheets = <<>> THEN 0
  ELSE Len(Head(file_sheets).cleaned_df) + RowsIn(Tail(file_sheets))

NoIngest ==
  [op |-> "none", before |-> init_database, kept |-> 0, empty |-> 0,
   failed |-> 0, sheet |-> 0, inserted_by |-> <<>>, computed_update |-> FALSE]

(***************************************************************************)
(* Initial states.                                                         *)
(***************************************************************************)
NoRow == [c \in {} |-> 0]

InitOutputs ==
  /\ pc = "ready"
  /\ run = 1
  /\ duplicates = <<>>
  /\ unique_new = <<>>
  /\ updated_existing = <<>>
  /\ existing_indices_to_update = EmptyUpdates
  /\ discarded = {}
  /\ returned_row = NoRow
  /\ investors = init_database
  /\ store_result = 0
  /\ store_call = NoCall
  /\ sheets = <<>>
  /\ results = EmptyResults
  /\ ingest_call = NoIngest

\* Merging inputs: every strategy name, an unknown one included, and
\* thresholds inside and outside 0..100.
Init ==
  /\ new_df \in SeqsUpTo(MergeRows, MaxNew)
  /\ existing_df \in StoreSnapshots(MergeRows, MaxExisting)
  /\ strategy \in Strategies \cup {"keep_newest"}
  /\ threshold \in MergeThresholds
  /\ InitOutputs

\* Matching inputs: the new batch is ingested after the existing rows.
InitMatch ==
  /\ new_df \in SeqsUpTo({NewRow(k[1], k[2], NaN, 2) : k \in NewKeys}, MaxNew)
  /\ existing_df \in
       StoreSnapshots({NewRow(k[1], k[2], NaN, 1) : k \in ExistingKeys},
                      MaxExisting)
  /\ strategy = DefaultStrategy
  /\ threshold \in MatchThresholds
  /\ InitOutputs

\* Rows for the merge strategies.  A matched pair: the new row "abc", the
\* existing row "ab" (name ratio 80), each with every kind of portfolio
\* value and timestamp, a text field (employees) that is missing or not, a
\* second high-water field, and a third one that the row may not have.
Absent == -3

Fifty == <<"5", "0">>
Eighty == <<"8", "0">>

StrategyRow(name, portfolio_value, ingested_at, employees, deal_size_max, no_of_rounds) ==
  LET base == [name |-> name, location |-> zg,
               portfolio_value |-> portfolio_value,
               ingested_at |-> ingested_at, employees |-> employees,
               deal_size_max |-> deal_size_max]
  IN IF no_of_rounds = Absent THEN base
     ELSE [c \in DOMAIN base \cup {"no_of_rounds"} |->
             IF c = "no_of_rounds" THEN no_of_rounds ELSE base[c]]

PortfolioValues == {None, NaN} \cup 0..MaxValue

Timestamps == {NaN} \cup 1..MaxValue

NewStrategyRows ==
  {StrategyRow(abc, v, ts, e, d, r) :
     v \in PortfolioValues, ts \in Timestamps, e \in {NoneText, Eighty},
     d \in {NaN, 2}, r \in {Absent, NaN, 1}}

ExistingStrategyRows ==
  {StrategyRow(ab, v, ts, e, d, r) :
     v \in PortfolioValues, ts \in Timestamps, e \in {NoneText, Fifty},
     d \in {NaN, 1}, r \in {Absent, NaN, 1}}

DefaultThreshold == 85

\* Rows without a name: a null name and a blank one, next to a named row,
\* against existing rows with a null name, with the name "Nonet" and with
\* the name of the named row.
Nonet == <<"N", "o", "n", "e", "t">>

NamelessNewKeys == {<<NoneText, zg>>, <<Blank, zg>>, <<ab, zg>>}

NamelessExistingKeys == {<<NoneText, zg>>, <<Nonet, zg>>, <<ab, zg>>}

\* Names whose similarity is not a whole number: "abc" / "abcd" have ratio
\* 600 / 7, about 85.7.
abcd == <<"a", "b", "c", "d">>

ScoreThresholds == {0, DefaultThreshold}

InitScore ==
  /\ new_df \in
       SeqsUpTo({NewRow(n, zg, NaN, 2) : n \in {ab, abc, abcd}}, MaxNew)
  /\ existing_df \in
       StoreSnapshots({NewRow(n, zg, NaN, 1) : n \in {ab, abc, abcd}},
                      MaxExisting)
  /\ strategy = DefaultStrategy
  /\ threshold \in ScoreThresholds
  /\ InitOutputs

InitNameless ==
  /\ new_df \in
       SeqsUpTo({NewRow(k[1], k[2], NaN, 2) : k \in NamelessNewKeys}, MaxNew)
  /\ existing_df \in
       StoreSnapshots({NewRow(k[1], k[2], NaN, 1) : k \in NamelessExistingKeys},
                      MaxExisting)
  /\ strategy \in Strategies
  /\ threshold = DefaultThreshold
  /\ InitOutputs

\* Strategy inputs: one new row and the existing row it was matched to.
InitStrategy ==
  /\ new_df \in {<<r>> : r \in NewStrategyRows}
  /\ existing_df \in {<<WithId(r, 1)>> : r \in ExistingStrategyRows}
  /\ strategy \in Strategies
  /\ threshold = DefaultThreshold
  /\ InitOutputs

(***************************************************************************)
(* Operations.                                                             *)
(***************************************************************************)
\* A call of find_duplicates(new_df, existing_df, threshold).
FindDuplicatesCall ==
  /\ pc = "ready"
  /\ run = 1
  /\ duplicates' = find_duplicates(new_df, existing_df, threshold)
  /\ pc' = "found"
  /\ UNCHANGED <<new_df, existing_df, strategy, threshold, run, unique_new,
                 updated_existing, existing_indices_to_update, discarded,
                 returned_row>>
  /\ UNCHANGED storeVars
  /\ UNCHANGED ingestVars

\* A call of deduplicate_and_merge(new_df, existing_df, strategy, threshold).
DeduplicateAndMergeCall ==
  /\ pc = "ready"
  /\ \E r \in {deduplicate_and_merge(new_df, existing_df, strategy, threshold)} :
        /\ duplicates' = r.duplicates
        /\ unique_new' = r.unique_new
        /\ updated_existing' = r.updated_existing
        /\ existing_indices_to_update' = r.update
        /\ discarded' = r.dropped
        /\ existing_df' = r.existing_after
  /\ pc' = "merged"
  /\ UNCHANGED <<new_df, strategy, threshold, run, returned_row>>
  /\ UNCHANGED storeVars
  /\ UNCHANGED ingestVars

\* A call of the strategy function on the first rows of the two batches:
\* merged_row = merge_func(new_row, existing_row).
MergeStrategyCall ==
  /\ pc = "ready"
  /\ run = 1
  /\ new_df # <<>>
  /\ existing_df # <<>>
  /\ returned_row' = merge_func(strategy, new_df[1], existing_df[1])
  /\ existing_df' =
       [existing_df EXCEPT
          ![1] = existing_row_after(strategy, new_df[1], existing_df[1])]
  /\ pc' = "applied"
  /\ UNCHANGED <<new_df, strategy, threshold, run, duplicates, unique_new,
                 updated_existing, existing_indices_to_update, discarded>>
  /\ UNCHANGED storeVars
  /\ UNCHANGED ingestVars

\* The caller persists the outcome of the first run: the updated rows
\* replace their existing rows, the rows to insert go through
\* insert_dataframe, and the result is the snapshot of the next run of the
\* same batch.
Persist ==
  /\ pc = "merged"
  /\ run = 1
  /\ existing_df' =
       insert_dataframe(TableOf(updated_existing), unique_new).conn.rows
  /\ run' = 2
  /\ pc' = "ready"
  /\ UNCHANGED <<new_df, strategy, threshold, duplicates, unique_new,
                 updated_existing, existing_indices_to_update, discarded,
                 returned_row>>
  /\ UNCHANGED storeVars
  /\ UNCHANGED ingestVars

\* The variables of reconciliation.
mergeVars ==
  <<new_df, existing_df, strategy, threshold, run, duplicates, unique_new,
    updated_existing, existing_indices_to_update, discarded, returned_row>>

\* A call of insert_dataframe(conn, df) on the investors table.
InsertDataframeCall ==
  /\ pc \in {"ready", "inserted", "removed"}
  /\ \E df \in SeqsUpTo(StoreRows, MaxNew) :
       /\ Len(investors.rows) + Len(df) <= MaxStore
       /\ \E r \in {insert_dataframe(investors, df)} :
            /\ investors' = r.conn
            /\ store_result' = r.inserted
       /\ store_call' = [store_call EXCEPT !.op = "insert",
                                           !.before = investors, !.df = df]
  /\ pc' = "inserted"
  /\ UNCHANGED mergeVars
  /\ UNCHANGED ingestVars

\* A call of remove_unused_columns(conn, columns_to_remove).
RemoveUnusedColumnsCall ==
  /\ pc \in {"ready", "inserted", "removed"}
  /\ \E cols \in RemoveRequests :
       /\ \E r \in {remove_unused_columns(investors, cols)} :
            /\ investors' = r.conn
            /\ store_result' = r.removed
            /\ store_call' =
                 [store_call EXCEPT !.op = "remove", !.before = investors,
                                    !.columns = cols,
                                    !.columns_removed = @ \/ r.removed > 0]
  /\ pc' = "removed"
  /\ UNCHANGED mergeVars
  /\ UNCHANGED ingestVars

\* ingest_and_merge up to the loop: load_file, filter_sheets,
\* init_database and load_all_investors; an exception of one of them is
\* caught by the outer handler, which records it and returns.
IngestAndMergeStart ==
  /\ pc \in {"ready", "returned"}
  /\ \E file \in Files, raised \in BOOLEAN :
       /\ Len(investors.rows) + RowsIn(file) <= MaxStore
       /\ IF raised
          THEN /\ file = <<>>
               /\ sheets' = <<>>
               /\ results' =
                    [EmptyResults EXCEPT
                       !.errors = <<[sheet |-> <<>>, file |-> TRUE]>>]
               /\ ingest_call' = [NoIngest EXCEPT !.op = "failed",
                                                  !.before = investors]
               /\ pc' = "returned"
               /\ UNCHANGED existing_df
          ELSE /\ sheets' = filter_sheets(file)
               /\ results' = EmptyResults
               /\ existing_df' = load_all_investors(investors)
               /\ ingest_call' =
                    [NoIngest EXCEPT !.op = "ingest", !.before = investors,
                                     !.kept = Len(filter_sheets(file))]
               /\ pc' = "sheets"
  /\ new_df' = <<>>
  /\ duplicates' = <<>>
  /\ unique_new' = <<>>
  /\ updated_existing' = <<>>
  /\ UNCHANGED <<strategy, threshold, run, existing_indices_to_update,
                 discarded, returned_row>>
  /\ UNCHANGED storeVars

\* One pass of the loop of ingest_and_merge, on the next sheet.
IngestAndMergeSheet ==
  /\ pc = "sheets"
  /\ sheets # <<>>
  /\ \E r \in {process_sheet(investors, existing_df, Head(sheets), strategy,
                              threshold, results)} :
       /\ investors' = r.conn
       /\ results' = r.results
       /\ new_df' = IF r.outcome = "processed"
                    THEN Head(sheets).cleaned_df ELSE <<>>
       /\ duplicates' = r.merge.duplicates
       /\ unique_new' = r.merge.unique_new
       /\ updated_existing' = r.merge.updated_existing
       /\ ingest_call' =
            [ingest_call EXCEPT
               !.sheet = @ + 1,
               !.empty = IF r.outcome = "empty" THEN @ + 1 ELSE @,
               !.failed = IF r.outcome = "failed" THEN @ + 1 ELSE @,
               !.computed_update =
                  @ \/ (r.outcome = "processed"
                        /\ r.merge.updated_existing # existing_df),
               !.inserted_by =
                  @ \o [k \in 1..(Len(r.conn.rows) - Len(investors.rows))
                          |-> ingest_call.sheet + 1]]
  /\ sheets' = Tail(sheets)
  /\ UNCHANGED <<existing_df, strategy, threshold, pc, run,
                 existing_indices_to_update, discarded, returned_row,
                 store_result, store_call>>

\* The end of ingest_and_merge: conn.close() and return results.
IngestAndMergeReturn ==
  /\ pc = "sheets"
  /\ sheets = <<>>
  /\ pc' = "returned"
  /\ UNCHANGED mergeVars
  /\ UNCHANGED storeVars
  /\ UNCHANGED ingestVars

Next ==
  \/ FindDuplicatesCall
  \/ DeduplicateAndMergeCall
  \/ MergeStrategyCall
  \/ Persist

\* Reconciliation: matching, merging, persisting and a second run.
Spec == Init /\ [][Next]_vars

\* The duplicate matcher alone, over the matching inputs.
SpecMatch == InitMatch /\ [][FindDuplicatesCall]_vars

\* Matching and reconciliation of batches with nameless rows.
SpecNameless ==
  InitNameless /\ [][FindDuplicatesCall \/ DeduplicateAndMergeCall]_vars

\* The duplicate matcher over names one edit apart.
SpecScore == InitScore /\ [][FindDuplicatesCall]_vars

\* A store created by init_database, with no batch to reconcile.
InitStore ==
  /\ new_df = <<>>
  /\ existing_df = <<>>
  /\ strategy = DefaultStrategy
  /\ threshold = DefaultThreshold
  /\ InitOutputs

\* Sequences of insert_dataframe calls on a new store.
SpecInsert == InitStore /\ [][InsertDataframeCall]_vars

\* Sequences of insert_dataframe and remove_unused_columns calls.
SpecStore ==
  InitStore /\ [][InsertDataframeCall \/ RemoveUnusedColumnsCall]_vars

\* A store created by init_database and the configurations of
\* ingest_and_merge: every strategy, the default threshold and a lower one.
InitIngest ==
  /\ new_df = <<>>
  /\ existing_df = <<>>
  /\ strategy \in Strategies
  /\ threshold \in {80, DefaultThreshold}
  /\ InitOutputs

\* Sequences of ingest_and_merge calls on a new store.
SpecIngest ==
  InitIngest
    /\ [][IngestAndMergeStart \/ IngestAndMergeSheet
            \/ IngestAndMergeReturn]_vars

\* A merge strategy alone, over the strategy inputs.
SpecStrategy == InitStrategy /\ [][MergeStrategyCall]_vars

(***************************************************************************)
(* Properties of the duplicate matcher, over the state after a call of     *)
(* find_duplicates.                                                        *)
(***************************************************************************)
NewIdx == 1..Len(new_df)

ExistingIdx == 1..Len(existing_df)

\* The test find_duplicates makes of new row i against existing row j.
Accepted(i, j) ==
  fuzzy_match_name_location(RowName(new_df[i]), RowLocation(new_df[i]),
                            RowName(existing_df[j]), RowLocation(existing_df[j]),
                            threshold)

NameSim(i, j) == Ratio(RowName(new_df[i]), RowName(existing_df[j]))

LocationSim(i, j) == Ratio(RowLocation(new_df[i]), RowLocation(existing_df[j]))

SameName(i, j) == RowName(new_df[i]) = RowName(existing_df[j])

SameLocation(i, j) == RowLocation(new_df[i]) = RowLocation(existing_df[j])

\* The matches of the result whose new side is row i.
MatchesOf(i) == {k \in 1..Len(duplicates) : duplicates[k].new_index = i}

Matched(i) == MatchesOf(i) # {}

\* C3: in the result of find_duplicates every new row index appears in at
\* most one match (the same existing index may appear in several: C3_Witness).
C3_OneMatchPerNewRow ==
  pc = "found" =>
    \A k1, k2 \in 1..Len(duplicates) :
      duplicates[k1].new_index = duplicates[k2].new_index => k1 = k2

\* Two matches of one result share their existing row.
C3_Witness ==
  /\ pc = "found"
  /\ \E k1, k2 \in 1..Len(duplicates) :
       /\ k1 # k2
       /\ duplicates[k1].existing_index = duplicates[k2].existing_index

\* C4: a new row with a non-empty name for which some existing row is
\* accepted gets a match, and the matched row has the greatest name
\* similarity among the accepted rows.
C4_BestAcceptedIsMatched ==
  pc = "found" =>
    \A i \in NewIdx :
      (RowName(new_df[i]) # <<>> /\ \E j \in ExistingIdx : Accepted(i, j)) =>
        /\ Matched(i)
        /\ \A k \in MatchesOf(i) : \A j \in ExistingIdx :
             Accepted(i, j) =>
               ~ScoreGT(NameSim(i, j), NameSim(i, duplicates[k].existing_index))

\* C5: when the existing batch holds a row with the name and the location
\* of new row i (or both locations empty), every match of i is a row with
\* the same normalized name, and i is matched if its name is not empty.
C5_ExactMatchPrecedence ==
  pc = "found" =>
    \A i \in NewIdx :
      (\E j \in ExistingIdx :
         SameName(i, j) /\ (SameLocation(i, j)
                            \/ (RowLocation(new_df[i]) = <<>>
                                /\ RowLocation(existing_df[j]) = <<>>))) =>
        /\ \A k \in MatchesOf(i) : SameName(i, duplicates[k].existing_index)
        /\ RowName(new_df[i]) # <<>> => Matched(i)

\* An exact row is matched although an accepted row with another name and
\* a positive similarity is scanned before it.
C5_Witness ==
  /\ pc = "found"
  /\ \E k \in 1..Len(duplicates) :
       LET i == duplicates[k].new_index
           j == duplicates[k].existing_index
       IN /\ SameName(i, j) /\ SameLocation(i, j)
          /\ \E d \in 1..(j - 1) :
               /\ ~SameName(i, d) /\ Accepted(i, d)
               /\ ScoreGT(NameSim(i, d), ZeroScore)

\* C6: when the scan meets an accepted row e1 with the name of new row i
\* and a location that is similar but not equal, and later a row e2 with
\* the name and the location of i, the match of i is a row with the name
\* and the location of i.
C6_LaterExactLocationPreferred ==
  pc = "found" =>
    \A i \in NewIdx : \A j1, j2 \in ExistingIdx :
      ( /\ RowName(new_df[i]) # <<>>
        /\ j1 < j2
        /\ SameName(i, j1) /\ ~SameLocation(i, j1) /\ Accepted(i, j1)
        /\ ScoreGE(LocationSim(i, j1), LocationThreshold)
        /\ SameName(i, j2) /\ SameLocation(i, j2) ) =>
        /\ Matched(i)
        /\ \A k \in MatchesOf(i) :
             /\ SameName(i, duplicates[k].existing_index)
             /\ SameLocation(i, duplicates[k].existing_index)

\* C7: an existing row whose name similarity reaches the threshold is
\* accepted whenever the location of either row is missing.
C7_MissingLocationTrustsName ==
  pc = "found" =>
    \A i \in NewIdx : \A j \in ExistingIdx :
      ( /\ RowName(new_df[i]) # <<>>
        /\ ScoreGE(NameSim(i, j), threshold)
        /\ (new_df[i].location = NoneText \/ existing_df[j].location = NoneText) ) =>
        Accepted(i, j)

\* C8: for rows with different names whose locations pass the location rule
\* the pair is accepted exactly when the name similarity is at least the
\* threshold; and a new row whose name differs from that of every existing
\* row is matched if such a pair has a positive similarity at or above the
\* threshold, and unmatched if all similarities are below it.
C8_ThresholdInclusive ==
  pc = "found" =>
    \A i \in NewIdx :
      (RowName(new_df[i]) # <<>> /\ \A j \in ExistingIdx : ~SameName(i, j)) =>
        /\ \A j \in ExistingIdx :
             ScoreGE(LocationSim(i, j), LocationThreshold) =>
               (Accepted(i, j) <=> ScoreGE(NameSim(i, j), threshold))
        /\ (\E j \in ExistingIdx :
              /\ ScoreGE(LocationSim(i, j), LocationThreshold)
              /\ ScoreGE(NameSim(i, j), threshold)
              /\ ScoreGT(NameSim(i, j), ZeroScore)) => Matched(i)
        /\ (\A j \in ExistingIdx : ~ScoreGE(NameSim(i, j), threshold)) =>
             ~Matched(i)

\* A match whose name similarity is exactly the threshold.
C8_Witness ==
  /\ pc = "found"
  /\ \E k \in 1..Len(duplicates) :
       LET i == duplicates[k].new_index
           j == duplicates[k].existing_index
       IN /\ ~SameName(i, j)
          /\ ScoreEq(duplicates[k].similarity, [n |-> threshold, d |-> 100])

(***************************************************************************)
(* Properties of reconciliation, over the state after a call of            *)
(* deduplicate_and_merge.                                                  *)
(***************************************************************************)
ValidConfiguration == strategy \in Strategies /\ threshold \in 0..100

\* C1: partition totality.  With a known strategy and a threshold in
\* 0..100, the rows to insert, the entries to update and the matched rows
\* whose merge equals the existing row add up to the rows of the new batch.
C1_PartitionTotality ==
  (pc = "merged" /\ ValidConfiguration) =>
    Len(unique_new) + Cardinality(DOMAIN existing_indices_to_update)
      + Cardinality(discarded) = Len(new_df)

\* C2: idempotence of re-ingestion.  With a known strategy and a threshold
\* in 0..100, the run of the same batch against the persisted outcome of
\* the first run inserts nothing, updates nothing and discards every row.
C2_ReingestIsNoOp ==
  (pc = "merged" /\ run = 2 /\ ValidConfiguration) =>
    /\ unique_new = <<>>
    /\ DOMAIN existing_indices_to_update = {}
    /\ discarded = 1..Len(new_df)

\* C9: threshold validation.  No call of find_duplicates or of
\* deduplicate_and_merge with a threshold outside 0..100 returns a result
\* (stated for two non-empty batches, where the threshold is used).
C9_ThresholdValidated ==
  (pc \in {"found", "merged"} /\ new_df # <<>> /\ existing_df # <<>>) =>
    threshold \in 0..100

\* C10: an unknown strategy fails fast.  No call of deduplicate_and_merge
\* with a strategy name other than the three known ones returns a
\* partition (stated for a valid threshold and a call that found matches,
\* where the strategy is used).
C10_UnknownStrategyFails ==
  (pc = "merged" /\ threshold \in 0..100 /\ duplicates # <<>>) =>
    strategy \in Strategies

(***************************************************************************)
(* Properties of the merge strategies, over the state after a call of the  *)
(* strategy function on new_df[1] and existing_df[1].                      *)
(***************************************************************************)
Applied(name) == pc = "applied" /\ strategy = name

\* a is a timestamp or number later / greater than b, both present.
StrictlyGreater(a, b) == a \notin {None, NaN} /\ b \notin {None, NaN} /\ a > b

\* The value of a column of the existing row, missing when it has no such
\* column.
ExistingValue(col) ==
  IF col \in DOMAIN existing_df[1] THEN existing_df[1][col]
  ELSE MissingValue(col)

\* C11: keep_latest returns the new row, whole, exactly when its
\* ingested_at is strictly greater than that of the existing row; otherwise
\* (equal timestamps included) it returns the existing row unchanged.
C11_KeepLatest ==
  Applied("keep_latest") =>
    IF StrictlyGreater(new_df[1].ingested_at, existing_df[1].ingested_at)
    THEN returned_row = new_df[1]
    ELSE returned_row = existing_df[1]

\* Equal timestamps: the existing row is returned.
C11_Witness ==
  /\ Applied("keep_latest")
  /\ new_df[1].ingested_at = existing_df[1].ingested_at
  /\ new_df[1].ingested_at # NaN
  /\ returned_row = existing_df[1]
  /\ returned_row # new_df[1]

\* null or absent counted as 0
ValueOrZero(v) == IF v \in {None, NaN} THEN 0 ELSE v

\* C12: keep_richest returns the new row exactly when its portfolio_value,
\* null counted as 0, is strictly greater than that of the existing row,
\* null counted as 0; ties return the existing row.
C12_KeepRichest ==
  Applied("keep_richest") =>
    IF ValueOrZero(new_df[1].portfolio_value)
         > ValueOrZero(existing_df[1].portfolio_value)
    THEN returned_row = new_df[1]
    ELSE returned_row = existing_df[1]

OrdinaryCols(row) == DOMAIN row \ ({"ingested_at"} \cup HighWaterCols)

\* C13: merge_fields never overwrites a populated ordinary field: for
\* every field of the existing row other than ingested_at and the three
\* high-water fields, a non-null existing value is the merged value.
C13_OrdinaryFieldsKept ==
  Applied("merge_fields") =>
    \A c \in OrdinaryCols(existing_df[1]) :
      ~IsNa(c, existing_df[1][c]) =>
        c \in DOMAIN returned_row /\ returned_row[c] = existing_df[1][c]

\* Existing employees "50", new employees "80": merged employees "50".
C13_Witness ==
  /\ Applied("merge_fields")
  /\ existing_df[1].employees = Fifty
  /\ new_df[1].employees = Eighty
  /\ returned_row.employees = Fifty

\* C14: merge_fields high-water mark: for each of portfolio_value,
\* deal_size_max and no_of_rounds present in the new row the merged value
\* is the greater of the two values, a null losing to a non-null.
C14_HighWaterMark ==
  Applied("merge_fields") =>
    \A c \in HighWaterCols \cap DOMAIN new_df[1] :
      LET new_val == new_df[1][c]
          existing_val == ExistingValue(c)
      IN IF ~IsNa(c, new_val) /\ ~IsNa(c, existing_val)
           THEN returned_row[c] = IF new_val > existing_val THEN new_val
                                  ELSE existing_val
         ELSE IF ~IsNa(c, new_val) THEN returned_row[c] = new_val
         ELSE IF ~IsNa(c, existing_val) THEN returned_row[c] = existing_val
         ELSE c \in DOMAIN returned_row => IsNa(c, returned_row[c])

\* A greater new value replaces a populated existing value, and a new value
\* is taken for a high-water field the existing row does not have.
C14_Witness ==
  /\ Applied("merge_fields")
  /\ StrictlyGreater(new_df[1].portfolio_value, existing_df[1].portfolio_value)
  /\ returned_row.portfolio_value = new_df[1].portfolio_value
  /\ "no_of_rounds" \in DOMAIN new_df[1] \ DOMAIN existing_df[1]
  /\ "no_of_rounds" \in DOMAIN returned_row

\* C15: merge_fields fills gaps and keeps the later timestamp: a null (or
\* absent) existing value is replaced by a non-null new value, ingested_at
\* is the later of the two timestamps, and no field that is non-null in the
\* existing row is null in the merged row.
C15_FillGapsLaterTimestamp ==
  Applied("merge_fields") =>
    /\ \A c \in DOMAIN new_df[1] :
         (IsNa(c, ExistingValue(c)) /\ ~IsNa(c, new_df[1][c])) =>
           c \in DOMAIN returned_row /\ returned_row[c] = new_df[1][c]
    /\ (new_df[1].ingested_at # NaN /\ existing_df[1].ingested_at # NaN) =>
         returned_row.ingested_at =
           IF new_df[1].ingested_at > existing_df[1].ingested_at
           THEN new_df[1].ingested_at ELSE existing_df[1].ingested_at
    /\ \A c \in DOMAIN existing_df[1] :
         ~IsNa(c, existing_df[1][c]) =>
           c \in DOMAIN returned_row /\ ~IsNa(c, returned_row[c])

\* A missing employees value is filled and the later timestamp is taken.
C15_Witness ==
  /\ Applied("merge_fields")
  /\ existing_df[1].employees = NoneText
  /\ new_df[1].employees = Eighty
  /\ returned_row.employees = Eighty
  /\ StrictlyGreater(new_df[1].ingested_at, existing_df[1].ingested_at)
  /\ returned_row.ingested_at = new_df[1].ingested_at

(***************************************************************************)
(* Properties of the outcome of deduplicate_and_merge: the matches are in  *)
(* duplicates, and the two batches are as they were passed in.             *)
(***************************************************************************)
Matches == 1..Len(duplicates)

\* The merge of match k, and whether it differs from the existing row.
MergeOf(k) ==
  merge_func(strategy, new_df[duplicates[k].new_index],
             existing_df[duplicates[k].existing_index])

Differs(k) ==
  LET m == MergeOf(k)
      e == existing_df[duplicates[k].existing_index]
  IN \/ DOMAIN m # DOMAIN e
     \/ \E c \in DOMAIN e : ~IsNa(c, e[c]) /\ m[c] # e[c]
     \/ \E c \in DOMAIN e : IsNa(c, e[c]) /\ ~IsNa(c, m[c])

MatchedNew == {duplicates[k].new_index : k \in Matches}

\* The rows of df whose index is in keep, in the order of df.
RECURSIVE KeptRows(_, _, _)
KeptRows(df, keep, i) ==
  IF i > Len(df) THEN <<>>
  ELSE (IF i \in keep THEN <<df[i]>> ELSE <<>>) \o KeptRows(df, keep, i + 1)

\* A merge result as a row of the existing frame.
AsExistingRow(m, e) ==
  [c \in DOMAIN e |-> IF c \in DOMAIN m THEN m[c] ELSE MissingValue(c)]

\* The existing rows with a match whose merge differs from them.
Replaced ==
  {duplicates[k].existing_index : k \in {m \in Matches : Differs(m)}}

\* C16 as stated, pair by pair: for every matched pair the existing row is
\* in the updated set exactly when the merge of that pair differs from it,
\* and when the merge equals it the existing row is returned unchanged and
\* the new row is dropped; matched rows are not in to-insert, unmatched
\* rows are.
C16_UpdateIffPairDiffers ==
  pc = "merged" =>
    /\ \A k \in Matches :
         LET j == duplicates[k].existing_index
         IN /\ (j \in DOMAIN existing_indices_to_update) <=> Differs(k)
            /\ ~Differs(k) =>
                 /\ updated_existing[j] = existing_df[j]
                 /\ duplicates[k].new_index \in discarded
    /\ unique_new = KeptRows(new_df, NewIdx \ MatchedNew, 1)

\* C16, amended: an existing row is in the updated set exactly when the
\* merge of at least one of its matched pairs differs from it, and it then
\* holds the merge of such a pair; every other existing row is returned
\* unchanged; a matched new row whose merge equals the existing row is
\* dropped; matched rows are not in to-insert, unmatched rows are.
C16_UpdateOrDiscard ==
  pc = "merged" =>
    /\ DOMAIN existing_indices_to_update = Replaced
    /\ Len(updated_existing) = Len(existing_df)
    /\ \A j \in ExistingIdx :
         IF j \in Replaced
         THEN \E k \in Matches :
                /\ duplicates[k].existing_index = j
                /\ Differs(k)
                /\ updated_existing[j] = AsExistingRow(MergeOf(k), existing_df[j])
         ELSE updated_existing[j] = existing_df[j]
    /\ discarded = {duplicates[k].new_index : k \in {m \in Matches : ~Differs(m)}}
    /\ unique_new = KeptRows(new_df, NewIdx \ MatchedNew, 1)

\* One match updates its existing row and another match is dropped.
C16_Witness ==
  /\ pc = "merged"
  /\ ValidConfiguration
  /\ \E k1, k2 \in Matches :
       /\ Differs(k1)
       /\ duplicates[k1].existing_index \in DOMAIN existing_indices_to_update
       /\ ~Differs(k2)
       /\ duplicates[k2].new_index \in discarded

(***************************************************************************)
(* Order independence.                                                     *)
(***************************************************************************)
\* The frame df with its rows in the order p, a permutation of its indices.
Reordered(df, p) == [i \in 1..Len(df) |-> df[p[i]]]

\* The existing records that the matches dups select for new row i.
Selected(dups, existing, i) ==
  {existing[dups[k].existing_index] :
     k \in {m \in 1..Len(dups) : dups[m].new_index = i}}

\* C17: scan-order independence of matching: for every new row, the
\* existing record find_duplicates selects is the same for every ordering
\* of the existing batch.
C17_ScanOrderIndependent ==
  pc = "found" =>
    \A p \in Permutations(ExistingIdx) :
      LET reordered == Reordered(existing_df, p)
          dups == find_duplicates(new_df, reordered, threshold)
      IN \A i \in NewIdx :
           Selected(dups, reordered, i) = Selected(duplicates, existing_df, i)

\* The number of rows of df equal to row.
CountOf(df, row) == Cardinality({i \in 1..Len(df) : df[i] = row})

\* Two frames hold the same rows as collections.
SameRows(df1, df2) ==
  /\ Len(df1) = Len(df2)
  /\ \A i \in 1..Len(df1) : CountOf(df1, df1[i]) = CountOf(df2, df1[i])

\* C18: execution-order independence of reconciliation: with a known
\* strategy and a threshold in 0..100, the rows to insert, the merged value
\* stored for each updated existing row and the number of dropped rows are
\* the same for every order of the new batch.
C18_ExecutionOrderIndependent ==
  (pc = "merged" /\ ValidConfiguration) =>
    \A p \in Permutations(NewIdx) :
      LET r == deduplicate_and_merge(Reordered(new_df, p), existing_df,
                                     strategy, threshold)
      IN /\ SameRows(r.unique_new, unique_new)
         /\ r.update = existing_indices_to_update
         /\ r.updated_existing = updated_existing
         /\ Cardinality(r.dropped) = Cardinality(discarded)

(***************************************************************************)
(* Frame properties.                                                       *)
(***************************************************************************)
\* C19: no input is mutated: a call of find_duplicates, of a merge
\* strategy or of deduplicate_and_merge leaves every row of the new batch
\* and of the existing batch passed in with the values it had before the
\* call.
C19_NoInputMutated ==
  [][pc = "ready" => (new_df' = new_df /\ existing_df' = existing_df)]_vars

\* deduplicate_and_merge has returned an updated row that differs from
\* the row passed in.
C19_Witness ==
  /\ pc = "merged"
  /\ DOMAIN existing_indices_to_update # {}
  /\ updated_existing # existing_df

(***************************************************************************)
(* Nameless rows.                                                          *)
(***************************************************************************)
\* The name of the row is null or empty (blank).
Nameless(row) == row.name = NoneText \/ Strip(row.name) = <<>>

\* C20: a new row whose name is empty or null is the new side of no match
\* of find_duplicates, and deduplicate_and_merge returns it in to-insert.
C20_NamelessNeverMatched ==
  pc \in {"found", "merged"} =>
    \A i \in NewIdx :
      Nameless(new_df[i]) =>
        /\ ~Matched(i)
        /\ pc = "merged" => CountOf(unique_new, new_df[i]) >= 1

(***************************************************************************)
(* Further properties of the outcome of deduplicate_and_merge.             *)
(***************************************************************************)
\* C22: empty-side short-circuit: with an empty existing batch every new
\* row is returned as to-insert and the updated set is empty; with an empty
\* new batch to-insert is empty and the existing batch is returned
\* unchanged; in both cases there is no match, no update and no dropped row.
C22_EmptySideShortCircuit ==
  pc = "merged" =>
    /\ existing_df = <<>> =>
         /\ unique_new = new_df
         /\ updated_existing = <<>>
    /\ new_df = <<>> =>
         /\ unique_new = <<>>
         /\ updated_existing = existing_df
    /\ (existing_df = <<>> \/ new_df = <<>>) =>
         /\ duplicates = <<>>
         /\ DOMAIN existing_indices_to_update = {}
         /\ discarded = {}

\* A non-empty new batch has been reconciled with an empty existing batch.
C22_Witness ==
  /\ pc = "merged"
  /\ existing_df = <<>>
  /\ Len(new_df) = MaxNew
  /\ unique_new = new_df

\* The matches of existing row j, in the order of duplicates.
MatchesTo(j) == {k \in Matches : duplicates[k].existing_index = j}

\* The merge strategy applied successively, from match k on, to the new
\* rows matched to existing row j, starting from acc.
RECURSIVE SuccessiveMerge(_, _, _)
SuccessiveMerge(j, k, acc) ==
  IF k > Len(duplicates) THEN acc
  ELSE IF duplicates[k].existing_index = j
    THEN SuccessiveMerge(j, k + 1,
           merge_func(strategy, new_df[duplicates[k].new_index], acc))
    ELSE SuccessiveMerge(j, k + 1, acc)

\* C23: no update is lost inside one batch: with a known strategy and a
\* threshold in 0..100, the row returned for an existing row with matches
\* is the result of applying the merge strategy successively to each new
\* row matched to it.
C23_NoLostUpdate ==
  (pc = "merged" /\ ValidConfiguration) =>
    \A j \in ExistingIdx :
      MatchesTo(j) # {} =>
        \A c \in DOMAIN existing_df[j] \ {"id"} :
          LET merged == SuccessiveMerge(j, 1, existing_df[j])
          IN \/ updated_existing[j][c] = merged[c]
             \/ IsNa(c, updated_existing[j][c]) /\ IsNa(c, merged[c])

\* C25: the updated-existing collection has exactly the row indices of the
\* existing batch, and every existing row that is the target of no match
\* is returned with all its values unchanged.
C25_SameRowsReturned ==
  pc = "merged" =>
    /\ DOMAIN updated_existing = DOMAIN existing_df
    /\ \A j \in ExistingIdx :
         MatchesTo(j) = {} => updated_existing[j] = existing_df[j]

\* One existing row is updated and another is the target of no match.
C25_Witness ==
  /\ pc = "merged"
  /\ \E j1, j2 \in ExistingIdx :
       /\ j1 \in DOMAIN existing_indices_to_update
       /\ updated_existing[j1] # existing_df[j1]
       /\ MatchesTo(j2) = {}
       /\ updated_existing[j2] = existing_df[j2]

\* The fields that exist only on the existing side.
ExistingOnlyCols(j) ==
  DOMAIN existing_df[j] \ UNION {DOMAIN new_df[i] : i \in NewIdx}

\* C26: an updated existing row keeps its store identity: with a known
\* strategy and a threshold in 0..100, the fields that exist only on the
\* existing side (the id) have the values of the existing row in every
\* updated row.
C26_UpdatedRowKeepsIdentity ==
  (pc = "merged" /\ ValidConfiguration) =>
    \A j \in DOMAIN existing_indices_to_update :
      \A c \in ExistingOnlyCols(j) :
        updated_existing[j][c] = existing_df[j][c]

(***************************************************************************)
(* The matches emitted by find_duplicates.                                 *)
(***************************************************************************)
\* The score 100 * n / d is a whole number.
IsInteger(s) == (100 * s.n) % s.d = 0

\* C24: every match emitted by find_duplicates is justified: the pair
\* satisfies the rule of fuzzy_match_name_location for the threshold, and
\* the recorded similarity is an integer between 1 and 100 that is at least
\* the threshold or equal to 100.
C24_MatchJustified ==
  pc = "found" =>
    \A k \in 1..Len(duplicates) :
      LET sim == duplicates[k].similarity
      IN /\ Accepted(duplicates[k].new_index, duplicates[k].existing_index)
         /\ IsInteger(sim)
         /\ ScoreGE(sim, 1)
         /\ sim.n <= sim.d
         /\ ScoreGE(sim, threshold) \/ ScoreEq(sim, [n |-> 1, d |-> 1])

(***************************************************************************)
(* Properties of the investors table.                                      *)
(***************************************************************************)
\* Two rows have the same (name, location) pair, NULL equal to NULL.
SamePair(r1, r2) == r1.name = r2.name /\ r1.location = r2.location

\* The number of rows with the (name, location) pair of row.
CountPair(rows, row) ==
  Cardinality({i \in 1..Len(rows) : SamePair(rows[i], row)})

\* The rows stored before the last call are stored unchanged after it.
StoredRowsUnchanged ==
  /\ Len(investors.rows) >= Len(store_call.before.rows)
  /\ \A i \in 1..Len(store_call.before.rows) :
       \A c \in store_call.before.columns :
         investors.rows[i][c] = store_call.before.rows[i][c]

\* C21: store uniqueness: after any sequence of insert_dataframe calls on
\* a store created by init_database no two rows have the same
\* (name, location) pair, pairs with a null location included; a call
\* leaves the stored rows unchanged and returns the number of rows it
\* added.
C21_StoreUniqueness ==
  /\ \A i, j \in 1..Len(investors.rows) :
       i < j => ~SamePair(investors.rows[i], investors.rows[j])
  /\ store_call.op = "insert" =>
       /\ StoredRowsUnchanged
       /\ store_result = Len(investors.rows) - Len(store_call.before.rows)

\* C29: uniqueness survives column removal: a call of
\* remove_unused_columns that removed a column keeps all rows and the
\* values of the essential columns, and once a column has been removed a
\* call of insert_dataframe stores no row whose (name, location), location
\* not null, is that of a row already stored.
C29_UniquenessSurvivesRemoval ==
  /\ (store_call.op = "remove" /\ store_result > 0) =>
       /\ Len(investors.rows) = Len(store_call.before.rows)
       /\ \A i \in 1..Len(investors.rows) :
            \A c \in EssentialColumns \cap store_call.before.columns :
              /\ c \in investors.columns
              /\ investors.rows[i][c] = store_call.before.rows[i][c]
  /\ (store_call.op = "insert" /\ store_call.columns_removed) =>
       \A k \in 1..Len(store_call.df) :
         LET row == store_call.df[k]
         IN (row.location # NoneText
             /\ CountPair(store_call.before.rows, row) > 0) =>
              CountPair(investors.rows, row)
                = CountPair(store_call.before.rows, row)

(***************************************************************************)
(* Properties of ingest_and_merge, over the states of a call: after the    *)
(* store is opened, after each sheet, and after it returns.                *)
(***************************************************************************)
\* The rows ingest_and_merge has added to the table so far.
AddedRows == 1..Len(ingest_call.inserted_by)

AddedRow(i) == investors.rows[Len(ingest_call.before.rows) + i]

\* The duplicate matcher accepts row as a duplicate of stored.
MatcherAccepts(row, stored) ==
  find_duplicates(<<row>>, <<stored>>, threshold) # <<>>

\* C27: ingest_and_merge does not insert duplicates of what it has just
\* inserted: no row added from a later sheet is accepted by the duplicate
\* matcher as a duplicate of a row added from an earlier sheet of the same
\* call, and the rows a sheet is deduplicated against are the rows of the
\* store when the sheet is processed.
C27_NoDuplicateAcrossSheets ==
  ingest_call.op = "ingest" =>
    /\ \A i, j \in AddedRows :
         ingest_call.inserted_by[i] < ingest_call.inserted_by[j] =>
           ~MatcherAccepts(AddedRow(j), AddedRow(i))
    /\ (pc = "sheets" /\ sheets # <<>>) =>
         existing_df = load_all_investors(investors)

C30_SheetFailuresIsolated ==
  /\ pc \in {"ready", "sheets", "returned"}
  /\ ingest_call.op = "failed" =>
       /\ pc = "returned"
       /\ Len(results.errors) = 1
       /\ results.errors[1].file
       /\ results.sheets_processed = 0
       /\ results.rows_added = 0
       /\ results.rows_updated = 0
       /\ results.rows_skipped = 0
       /\ investors = ingest_call.before
  /\ ingest_call.op = "ingest" =>
       /\ Len(results.errors) = ingest_call.failed
       /\ \A k \in 1..Len(results.errors) : ~results.errors[k].file
       /\ results.sheets_processed + ingest_call.failed + ingest_call.empty
            = ingest_call.sheet
       /\ ingest_call.sheet + Len(sheets) = ingest_call.kept
       /\ pc = "returned" =>
            results.sheets_processed + ingest_call.failed
              + ingest_call.empty = ingest_call.kept

\* A call has returned after its first sheet failed and its second sheet
\* was processed and added a row.
C30_Witness ==
  /\ pc = "returned"
  /\ ingest_call.op = "ingest"
  /\ ingest_call.kept = 2
  /\ ingest_call.failed = 1
  /\ results.sheets_processed = 1
  /\ ingest_call.inserted_by = <<2>>

====
